---- MODULE Spec2Model ----
(***************************************************************************)
(* RoomEnv2 (room_env/envs/room2.py): a multi-room world with static,      *)
(* independent, dependent and agent objects.  The simulator object is the  *)
(* record env; ret is the last call made on it with its arguments and what *)
(* it returned or raised.  Python's process-wide random module is modelled *)
(* by the set of outcomes each draw can produce.  SpecSeeded follows the   *)
(* generator itself: twin is a second simulator of the same process, rng   *)
(* what has been drawn since the generator was seeded, memo the stream of  *)
(* the seed as far as it has been drawn, log what each simulator's calls   *)
(* returned.  SpecArchive follows the archives the simulator keeps of its   *)
(* hidden states, observations, answers and infos, in archive, and has the *)
(* callers pass movement actions that are none of the five.                *)
(***************************************************************************)
EXTENDS Integers, Sequences, FiniteSets, TLC

VARIABLES env, ret, twin, rng, memo, log, archive

vars == <<env, ret, twin, rng, memo, log, archive>>

(***************************************************************************)
(* Bounds of the model.                                                    *)
(***************************************************************************)
\* step is not called once current_time has reached MaxTime
MaxTime == 2
\* random.shuffle yields the rotations by 0..MaxShuffle places
MaxShuffle == 1
\* SpecSeeded: the calls made on one simulator after its construction
MaxCalls == 2
\* SpecSeeded: the resets made on both simulators together
MaxResets == 2
\* SpecArchive: the snapshots hidden_global_states_all comes to hold
MaxArchive == 3

(***************************************************************************)
(* Values.                                                                 *)
(***************************************************************************)
\* Python's None
None == "none"
\* the wall sentinel
Wall == "wall"

CORRECT == 1
WRONG == -1
PARTIAL == 0

\* the five actions move_with_action accepts, in the order it tests them
Actions == <<"north", "east", "south", "west", "stay">>
ValidActions == {Actions[i] : i \in 1..Len(Actions)}

(***************************************************************************)
(* The room configuration (room_size given as a dictionary).  Dictionaries *)
(* keep insertion order: RoomNames is the order of room_config's keys.     *)
(* Probabilities are in tenths.                                            *)
(***************************************************************************)
RoomNames == <<"a", "b", "c">>
Rooms == {RoomNames[i] : i \in 1..Len(RoomNames)}

room_config ==
    [a |-> [north |-> "b", east |-> Wall, south |-> Wall, west |-> Wall],
     b |-> [north |-> Wall, east |-> "c", south |-> "a", west |-> Wall],
     c |-> [north |-> Wall, east |-> Wall, south |-> Wall, west |-> "b"]]

\* self.objects[kind], in creation order
StaticObjects == <<"bed">>
IndependentObjects == <<"alice", "bob">>
DependentObjects == <<"laptop">>
AgentObjects == <<"agent">>

SeqSet(s) == {s[i] : i \in 1..Len(s)}

Statics == SeqSet(StaticObjects)
Independents == SeqSet(IndependentObjects)
Dependents == SeqSet(DependentObjects)
Agents == SeqSet(AgentObjects)
Entities == Statics \cup Independents \cup Dependents \cup Agents

object_init_config ==
    [bed    |-> [b |-> 10, c |-> 0],
     alice  |-> [a |-> 5, b |-> 5],
     bob    |-> [b |-> 10],
     laptop |-> [a |-> 5, b |-> 5],
     agent  |-> [a |-> 10]]

\* independent: room -> action -> probability; dependent: independent -> probability
object_transition_config ==
    [alice  |-> [a |-> [north |-> 5, stay |-> 5],
                 b |-> [east |-> 5, south |-> 5],
                 c |-> [west |-> 5, east |-> 5]],
     bob    |-> [a |-> [stay |-> 10],
                 b |-> [west |-> 5, stay |-> 5],
                 c |-> [stay |-> 10]],
     laptop |-> [alice |-> 5, bob |-> 5]]

object_question_probs ==
    [bed |-> 2, alice |-> 4, bob |-> 0, laptop |-> 4, agent |-> 0]

\* the constructor's arguments: episodes of two steps under every setting of
\* the other arguments, and episodes of one step
Configs ==
    [question_prob : {5, 10}, terminates_at : {1},
     randomize_observations : BOOLEAN, make_everything_static : BOOLEAN]
    \cup [question_prob : {5, 10}, terminates_at : {0},
          randomize_observations : {FALSE}, make_everything_static : {FALSE}]

(***************************************************************************)
(* The random module.                                                      *)
(***************************************************************************)
\* random.random() lies in [0, 1): representative values, in tenths
Uniform == {0, 5, 9}

\* a choice that ignores the weights
choices_any_weight(weights) == DOMAIN weights

\* random.choices(keys, weights, k=1)[0]: a key of positive weight
choices(weights) == {k \in DOMAIN weights : weights[k] > 0}

\* random.choice(seq)
choice(s) == {s[i] : i \in 1..Len(s)}

Rotate(s, k) == [i \in 1..Len(s) |-> s[((i - 1 + k) % Len(s)) + 1]]

\* random.shuffle(s)
shuffle(s) ==
    IF Len(s) = 0 THEN {s}
    ELSE {Rotate(s, k) : k \in 0..(IF MaxShuffle < Len(s) - 1 THEN MaxShuffle ELSE Len(s) - 1)}

(***************************************************************************)
(* Object                                                                  *)
(***************************************************************************)
\* move_with_action without its test for the wall
move_with_action_into_wall(action, current_location) ==
    IF action = "stay" THEN current_location
    ELSE room_config[current_location][action]

move_with_action(action, current_location) ==
    LET next_location ==
            IF action = "stay" THEN current_location
            ELSE room_config[current_location][action]
    IN  IF next_location # Wall THEN next_location ELSE current_location

\* _update_history keeping only the newest location
update_history_overwrite(e) ==
    [e EXCEPT !.history = [o \in Entities |-> <<e.location[o]>>]]

\* Object._update_history for every object
update_history(e) ==
    [e EXCEPT !.history = [o \in Entities |-> Append(e.history[o], e.location[o])]]

(***************************************************************************)
(* IndepdentObject                                                         *)
(***************************************************************************)
\* detach without self.attached = []
detach_keep_list(e, io) ==
    [e EXCEPT !.attached_to = [d \in Dependents |->
                                 IF d \in SeqSet(e.attached[io]) THEN None
                                 ELSE e.attached_to[d]]]

detach(e, io) ==
    [e EXCEPT !.attached_to = [d \in Dependents |->
                                 IF d \in SeqSet(e.attached[io]) THEN None
                                 ELSE e.attached_to[d]],
              !.attached = [e.attached EXCEPT ![io] = <<>>]]

\* move carrying every dependent object of the room, attached or not
move_carry_room(e, io) ==
    { LET loc == move_with_action(action, e.location[io])
          moved == [e EXCEPT !.location =
                        [o \in Entities |->
                            IF o = io \/ (o \in Dependents /\ e.location[o] = e.location[io])
                            THEN loc
                            ELSE e.location[o]]]
      IN  detach(moved, io)
      : action \in choices(object_transition_config[io][e.location[io]]) }

\* move without the attached objects riding along
move_leave_attached(e, io) ==
    { detach([e EXCEPT !.location[io] = move_with_action(action, e.location[io])], io)
      : action \in choices(object_transition_config[io][e.location[io]]) }

\* the states IndepdentObject.move can leave
move(e, io) ==
    { LET loc == move_with_action(action, e.location[io])
          moved == [e EXCEPT !.location =
                        [o \in Entities |->
                            IF o = io \/ o \in SeqSet(e.attached[io]) THEN loc
                            ELSE e.location[o]]]
      IN  detach(moved, io)
      : action \in choices(object_transition_config[io][e.location[io]]) }

(***************************************************************************)
(* DependentObject                                                         *)
(***************************************************************************)
\* the candidates without the test of the room
Candidates_any_room(e, do) ==
    SelectSeq(IndependentObjects,
              LAMBDA io : io \in DOMAIN object_transition_config[do])

\* the independent objects whose trial random.random() < prob is made
Candidates(e, do) ==
    SelectSeq(IndependentObjects,
              LAMBDA io : /\ e.location[io] = e.location[do]
                          /\ io \in DOMAIN object_transition_config[do])

\* the lists possible_attachments can be: each candidate is in or out with its trial
possible_attachments(e, do) ==
    LET cand == Candidates(e, do)
        prob(io) == object_transition_config[do][io]
    IN  { SelectSeq(cand, LAMBDA io : io \in S) :
            S \in { T \in SUBSET SeqSet(cand) :
                      \A io \in SeqSet(cand) :
                          \E u \in Uniform : (io \in T) <=> (u < prob(io)) } }

\* the states DependentObject.attach can leave
attach(e, do) ==
    LET cleared == [e EXCEPT !.attached_to[do] = None]
    IN  UNION { IF Len(pa) > 0
                THEN { [cleared EXCEPT
                          !.attached_to[do] = io,
                          !.attached[io] =
                              IF do \notin SeqSet(cleared.attached[io])
                              THEN Append(cleared.attached[io], do)
                              ELSE cleared.attached[io]]
                       : io \in choice(pa) }
                ELSE {cleared}
              : pa \in possible_attachments(e, do) }

(***************************************************************************)
(* RoomEnv2                                                                *)
(***************************************************************************)
RECURSIVE MoveAll(_, _)
\* for obj in self.objects["independent"]: obj.move()
MoveAll(S, ios) ==
    IF ios = <<>> THEN S
    ELSE MoveAll(UNION {move(e, Head(ios)) : e \in S}, Tail(ios))

RECURSIVE AttachAll(_, _)
\* for obj in self.objects["dependent"]: obj.attach()
AttachAll(S, dos) ==
    IF dos = <<>> THEN S
    ELSE AttachAll(UNION {attach(e, Head(dos)) : e \in S}, Tail(dos))

\* _create_objects: new objects placed by init_probs, dependent ones attached
create_objects(e) ==
    LET placed == { [e EXCEPT !.location = l,
                              !.history = [o \in Entities |-> <<>>],
                              !.attached = [io \in Independents |-> <<>>],
                              !.attached_to = [d \in Dependents |-> None]]
                    : l \in { f \in [Entities -> Rooms] :
                                \A o \in Entities : f[o] \in choices(object_init_config[o]) } }
    IN  AttachAll(placed, DependentObjects)

RECURSIVE Quadruples(_, _, _)
\* one atlocation quadruple per object of the list objs
Quadruples(e, objs, t) ==
    IF objs = <<>> THEN <<>>
    ELSE <<<<Head(objs), "atlocation", e.location[Head(objs)], t>>>>
         \o Quadruples(e, Tail(objs), t)

RECURSIVE RoomQuadruples(_, _)
\* four adjacency quadruples per room of the list names
RoomQuadruples(names, t) ==
    IF names = <<>> THEN <<>>
    ELSE LET name == Head(names)
         IN  << <<name, "north", room_config[name].north, t>>,
                <<name, "east", room_config[name].east, t>>,
                <<name, "south", room_config[name].south, t>>,
                <<name, "west", room_config[name].west, t>> >>
             \o RoomQuadruples(Tail(names), t)

\* the hidden state with the rooms' quadruples before the objects'
compute_hidden_global_state_rooms_first(e) ==
    [e EXCEPT !.hidden_global_state =
        RoomQuadruples(RoomNames, e.current_time)
        \o Quadruples(e, AgentObjects \o StaticObjects \o IndependentObjects \o DependentObjects,
                      e.current_time)]

compute_hidden_global_state(e) ==
    [e EXCEPT !.hidden_global_state =
        Quadruples(e, AgentObjects \o StaticObjects \o IndependentObjects \o DependentObjects,
                   e.current_time)
        \o RoomQuadruples(RoomNames, e.current_time)]

\* the filter without its test of the atlocation quadruples' tails
visible_everywhere(hidden, agent_location) ==
    SelectSeq(hidden,
              LAMBDA q : IF q[2] = "atlocation" THEN TRUE
                         ELSE q[1] = agent_location)

\* the quadruples of the hidden state the agent sees, in its order
visible(hidden, agent_location) ==
    SelectSeq(hidden,
              LAMBDA q : IF q[2] = "atlocation" THEN q[3] = agent_location
                         ELSE q[1] = agent_location)

\* the scan of the history run forward: the earliest entry that differs
previous_location_earliest(history, location) ==
    LET idx == {i \in 1..Len(history) : history[i] # location}
    IN  IF idx = {} THEN None
        ELSE history[CHOOSE i \in idx : \A j \in idx : i <= j]

\* the latest entry of history that differs from location, or None
previous_location(history, location) ==
    LET idx == {i \in 1..Len(history) : history[i] # location}
    IN  IF idx = {} THEN None
        ELSE history[CHOOSE i \in idx : \A j \in idx : j <= i]

\* get_observations_and_question leaving an answer set when it poses no question
get_observations_and_question_answer_kept(e0) ==
    LET agent_location == e0.location[AgentObjects[1]]
        e == compute_hidden_global_state(e0)
        room == visible(e.hidden_global_state, agent_location)
    IN  { [e EXCEPT
              !.question = IF suppressed THEN <<>>
                           ELSE <<name, "atlocation", "?", e.current_time>>,
              !.answer = <<[current |-> e.location[name],
                            previous |-> previous_location(e.history[name],
                                                           e.location[name])]>>,
              !.observations_room = obs]
          : name \in choices(object_question_probs),
            suppressed \in {u > e.question_prob : u \in Uniform},
            obs \in IF e.randomize_observations THEN shuffle(room) ELSE {room} }

\* the states get_observations_and_question can leave
get_observations_and_question(e0) ==
    LET agent_location == e0.location[AgentObjects[1]]
        e == compute_hidden_global_state(e0)
        room == visible(e.hidden_global_state, agent_location)
    IN  { [e EXCEPT
              !.question = IF suppressed THEN <<>>
                           ELSE <<name, "atlocation", "?", e.current_time>>,
              !.answer = IF suppressed THEN <<>>
                         ELSE <<[current |-> e.location[name],
                                 previous |-> previous_location(e.history[name],
                                                                e.location[name])]>>,
              !.observations_room = obs]
          : name \in choices(object_question_probs),
            suppressed \in {u > e.question_prob : u \in Uniform},
            obs \in IF e.randomize_observations THEN shuffle(room) ELSE {room} }

\* the observations dictionary the last get_observations_and_question returned
observations(e) == [room |-> e.observations_room, question |-> e.question]

\* the states reset can leave
reset(e) ==
    UNION { get_observations_and_question(update_history([c EXCEPT !.current_time = 0]))
            : c \in create_objects(e) }

(***************************************************************************)
(* The simulator after __init__: the objects are created, no episode yet.  *)
(***************************************************************************)
\* __init__ up to _create_objects: the fields set from the configuration c
NewRoomEnv2(c) ==
    [question_prob |-> c.question_prob,
     terminates_at |-> c.terminates_at,
     randomize_observations |-> c.randomize_observations,
     make_everything_static |-> c.make_everything_static,
     started |-> FALSE,
     current_time |-> 0,
     location |-> [o \in Entities |-> "a"],
     history |-> [o \in Entities |-> <<>>],
     attached |-> [io \in Independents |-> <<>>],
     attached_to |-> [d \in Dependents |-> None],
     hidden_global_state |-> <<>>,
     observations_room |-> <<>>,
     question |-> <<>>,
     answer |-> <<>>]

Constructed == UNION { create_objects(NewRoomEnv2(c)) : c \in Configs }

(***************************************************************************)
(* Calls.  ret is the call under observation: its arguments and what it    *)
(* returned or raised.  Every step can be the observed one, and the        *)
(* observed step is the last of the run; the steps before it leave no      *)
(* record, since what they returned is no part of the simulator.           *)
(***************************************************************************)
NoCall ==
    [op |-> "init", observed |-> FALSE, raised |-> None,
     action_qa |-> None, action_explore |-> None,
     reward |-> 0, done |-> FALSE, truncated |-> FALSE, info |-> <<>>]

\* Agent.move taking the neighbour entry as it is
agent_move_unchecked(e, action) ==
    [e EXCEPT !.location[AgentObjects[1]] =
                  IF action = "stay" THEN @ ELSE room_config[@][action]]

\* Agent.move
agent_move(e, action) ==
    [e EXCEPT !.location[AgentObjects[1]] =
                  move_with_action(action, e.location[AgentObjects[1]])]

\* the scoring without its branch for the previous location
score_no_partial(action_qa, answer) ==
    IF action_qa = answer.current THEN CORRECT ELSE WRONG

\* the reward of an answer against an answer set (step, lines 734-739)
score(action_qa, answer) ==
    IF action_qa = answer.current THEN CORRECT
    ELSE IF action_qa = answer.previous THEN PARTIAL
    ELSE WRONG

\* the dynamics without the test of make_everything_static
dynamics_not_frozen(e) ==
    AttachAll(MoveAll({e}, IndependentObjects), DependentObjects)

\* the world after the objects' own dynamics of one step (step, lines 741-746)
dynamics(e) ==
    IF ~e.make_everything_static
    THEN AttachAll(MoveAll({e}, IndependentObjects), DependentObjects)
    ELSE {e}

\* the test made after the increment
is_done_after_increment(e) == e.current_time + 1 = e.terminates_at

\* the test of current_time against terminates_at, before the increment
is_done(e) == e.current_time = e.terminates_at

\* the info dictionary built after the increment of the timestep
step_info_incremented(e) == [answers |-> e.answer, timestamp |-> e.current_time + 1]

\* the info dictionary of a step
step_info(e) == [answers |-> e.answer, timestamp |-> e.current_time]

\* what a step on e returns besides the observations
returned(e, action_qa, action_explore) ==
    [NoCall EXCEPT !.op = "step", !.observed = TRUE,
                   !.action_qa = action_qa, !.action_explore = action_explore,
                   !.reward = score(action_qa, e.answer[1]),
                   !.done = is_done(e),
                   !.info = step_info(e)]

\* what a step on e raises
raises(exception, action_qa, action_explore) ==
    [NoCall EXCEPT !.op = "step", !.observed = TRUE, !.raised = exception,
                   !.action_qa = action_qa, !.action_explore = action_explore]

\* step from line 748 on, the objects' dynamics having left the world w
step_agent(w, action_explore) ==
    LET moved == agent_move(w, action_explore)
        advanced == update_history([moved EXCEPT !.current_time = @ + 1])
    IN  get_observations_and_question(advanced)

\* the answers a caller passes
Answers == Rooms \cup {None}

\* the (answer, action) pairs a caller passes: every answer, and every action
Calls ==
    {<<action_qa, "stay">> : action_qa \in Answers}
    \cup {<<"a", action_explore>> : action_explore \in ValidActions}

Unobserved == [NoCall EXCEPT !.op = "step"]

\* the observed call has been made: the run is over
Stopped == ret.observed

\* the archives __init__ creates (lines 507-510): the snapshots of the hidden
\* state, and the numbers of entries of the three other lists
NoArchive ==
    [hidden_global_states_all |-> <<>>,
     observations_all |-> 0, answer_all |-> 0, info_all |-> 0]

\* Spec follows one simulator and leaves the generator and the archives out:
\* every draw is free, and twin, rng, memo, log and archive keep their values
Init ==
    /\ env \in Constructed
    /\ ret = NoCall
    /\ twin = None
    /\ rng = <<>>
    /\ memo = <<>>
    /\ log = <<>>
    /\ archive = NoArchive

\* a call of reset
ResetCall ==
    /\ ~Stopped
    /\ env.current_time < MaxTime
    /\ \E e \in reset(env) :
          /\ env' = [e EXCEPT !.started = TRUE]
          /\ ret' = [NoCall EXCEPT !.op = "reset"]

Reset ==
    /\ ResetCall
    /\ UNCHANGED <<twin, rng, memo, log, archive>>

\* step on a simulator whose last observation posed no question:
\* self.answer is None and self.answer["current"] raises
StepNoAnswer ==
    /\ ~Stopped
    /\ env.started
    /\ env.current_time < MaxTime
    /\ env.answer = <<>>
    /\ env' = env
    /\ \E c \in Calls : ret' = raises("TypeError", c[1], c[2])
    /\ UNCHANGED <<twin, rng, memo, log, archive>>

\* a call of step that returns
StepCall ==
    /\ ~Stopped
    /\ env.started
    /\ env.current_time < MaxTime
    /\ env.answer # <<>>
    /\ \E w \in dynamics(env), action_explore \in ValidActions :
          \E n \in step_agent(w, action_explore) :
              /\ env' = n
              /\ \/ ret' = Unobserved
                 \/ \E c \in Calls :
                       /\ c[2] = action_explore
                       /\ ret' = returned(env, c[1], c[2])

Step ==
    /\ StepCall
    /\ UNCHANGED <<twin, rng, memo, log, archive>>

Next == Reset \/ Step \/ StepNoAnswer

Spec == Init /\ [][Next]_vars

(***************************************************************************)
(* The seeded generator.  The random module is one generator for the whole *)
(* process: __init__ seeds it (line 477), every draw of every simulator    *)
(* advances it, and nothing else sets it.  Its state is what has been      *)
(* drawn since the seeding, as the list of the calls that drew: the        *)
(* simulator state a call found, the operation and its arguments.  memo    *)
(* maps such a list to the outcome of its last call: a call that finds the *)
(* generator where an earlier call found it, on the same simulator state   *)
(* with the same arguments, draws the same numbers and has that call's     *)
(* outcome; any other call draws what the stream holds there, which the    *)
(* model leaves open.  reset builds its objects anew, so what it draws     *)
(* depends on the configuration and not on the state it finds.             *)
(***************************************************************************)
\* seed_everything(seed): the generator at the start of the seed's stream
seed_everything == <<>>

\* the configuration of the two simulators
SeededConfig ==
    [question_prob |-> 10, terminates_at |-> 1,
     randomize_observations |-> FALSE, make_everything_static |-> FALSE]

\* the (answer, action) pairs the callers of the two simulators pass
SeededCalls == {<<"a", "stay">>, <<"b", "north">>}

Simulators == {"env", "twin"}

Sim(s) == IF s = "env" THEN env ELSE twin

Other(s) == IF s = "env" THEN "twin" ELSE "env"

\* what a call leaves in the log: the call with what it returned besides the
\* observations, the observations of the simulator e it left, and e itself,
\* which the caller can inspect
Result(r, e) ==
    [call |-> r, observations |-> e.observations_room, question |-> e.question,
     sim |-> e]

\* the part of a result the caller sees
Returned(r) ==
    [call |-> r.call, observations |-> r.observations, question |-> r.question]

\* a call that draws: the simulator state it finds, the operation, the arguments
Key(e, op, args) == [sim |-> e, op |-> op, args |-> args]

\* __init__ from line 477 on, for the configuration c
init(c) ==
    { [sim |-> e, result |-> Result(NoCall, e)] : e \in create_objects(NewRoomEnv2(c)) }

\* reset with what it returns
reset_returns(e) ==
    { [sim |-> [n EXCEPT !.started = TRUE],
       result |-> Result([NoCall EXCEPT !.op = "reset"], n)] : n \in reset(e) }

\* step with what it returns, the simulator holding an answer set
step(e, action_qa, action_explore) ==
    UNION { { [sim |-> n, result |-> Result(returned(e, action_qa, action_explore), n)]
              : n \in step_agent(w, action_explore) }
            : w \in dynamics(e) }

\* simulator s makes a call that draws and leaves the generator in state g:
\* the outcome is the one the stream gave before, or any of outcomes
Draws(s, g, outcomes) ==
    \E o \in (IF g \in DOMAIN memo THEN {memo[g]} ELSE outcomes) :
        /\ rng' = g
        /\ memo' = IF g \in DOMAIN memo THEN memo ELSE (g :> o) @@ memo
        /\ env' = IF s = "env" THEN o.sim ELSE env
        /\ twin' = IF s = "twin" THEN o.sim ELSE twin
        /\ log' = [log EXCEPT ![s] = Append(@, o.result)]
        /\ UNCHANGED <<ret, archive>>

\* simulator s makes a call that raises before it draws or assigns
Fails(s, r) ==
    /\ log' = [log EXCEPT ![s] = Append(@, Result(r, Sim(s)))]
    /\ UNCHANGED <<env, ret, twin, rng, memo, archive>>

\* the simulator s has been constructed
IsConstructed(s) == Len(log[s]) > 0

\* the callers feed both simulators the same calls: the next call of s is
\* the call the other simulator got at that place, if it got one
Mirrors(s, op, action_qa, action_explore) ==
    LET i == Len(log[s]) + 1
    IN  /\ i <= MaxCalls + 1
        /\ i <= Len(log[Other(s)]) =>
              /\ log[Other(s)][i].call.op = op
              /\ log[Other(s)][i].call.action_qa = action_qa
              /\ log[Other(s)][i].call.action_explore = action_explore

\* the two simulators differ after the same number of calls, in what the
\* call returned or in their state; the comparison of the two runs ends there
Diverged ==
    \E i \in 1..Len(log["env"]) :
        /\ i <= Len(log["twin"])
        /\ log["env"][i] # log["twin"][i]

\* the resets in the list of results l
RECURSIVE Resets(_)
Resets(l) ==
    IF l = <<>> THEN 0
    ELSE (IF l[1].call.op = "reset" THEN 1 ELSE 0) + Resets(Tail(l))

\* the process has constructed the first simulator, and not yet the second
InitSeeded ==
    /\ ret = NoCall
    /\ archive = NoArchive
    /\ \E o \in init(SeededConfig) :
          LET g == Append(seed_everything, Key(NewRoomEnv2(SeededConfig), "init", <<>>))
          IN  /\ env = o.sim
              /\ twin = NewRoomEnv2(SeededConfig)
              /\ rng = g
              /\ memo = (g :> o)
              /\ log = [env |-> <<o.result>>, twin |-> <<>>]

\* the process constructs the second simulator, with the same configuration
\* and seed: __init__ seeds the generator again
ConstructTwin ==
    /\ ~Diverged
    /\ ~IsConstructed("twin")
    /\ Draws("twin",
             Append(seed_everything, Key(NewRoomEnv2(SeededConfig), "init", <<>>)),
             init(SeededConfig))

ResetSeeded ==
    \E s \in Simulators :
        /\ ~Diverged
        /\ IsConstructed(s)
        /\ Resets(log["env"]) + Resets(log["twin"]) < MaxResets
        /\ Mirrors(s, "reset", None, None)
        /\ Draws(s, Append(rng, Key(NewRoomEnv2(Sim(s)), "reset", <<>>)), reset_returns(Sim(s)))

StepSeeded ==
    \E s \in Simulators, c \in SeededCalls :
        /\ ~Diverged
        /\ IsConstructed(s)
        /\ Sim(s).started
        /\ Mirrors(s, "step", c[1], c[2])
        /\ IF Sim(s).answer = <<>>
           THEN Fails(s, raises("TypeError", c[1], c[2]))
           ELSE Draws(s, Append(rng, Key(Sim(s), "step", c)), step(Sim(s), c[1], c[2]))

NextSeeded == ConstructTwin \/ ResetSeeded \/ StepSeeded

SpecSeeded == InitSeeded /\ [][NextSeeded]_vars


(***************************************************************************)
(* The archives and the rejected actions.  __init__ creates the four lists *)
(* hidden_global_states_all, observations_all, answer_all and info_all;    *)
(* every reset and every step that returns appends one entry to each, and  *)
(* nothing removes an entry.  The snapshots of the hidden state are kept   *)
(* whole, the three other lists by their lengths.                          *)
(***************************************************************************)
\* the configuration of the simulator of SpecArchive
ArchiveConfig ==
    [question_prob |-> 5, terminates_at |-> 1,
     randomize_observations |-> FALSE, make_everything_static |-> FALSE]

\* the archives after a reset or a step that has left the simulator e:
\* lines 623, 694, 695, and 712 or 756
archived(a, e) ==
    [hidden_global_states_all |-> Append(a.hidden_global_states_all, e.hidden_global_state),
     observations_all |-> a.observations_all + 1,
     answer_all |-> a.answer_all + 1,
     info_all |-> a.info_all + 1]

\* movement actions that are none of the five
InvalidActions == {"jump"}

\* the failing step with the timestep and the histories advanced first
step_invalid_action_advanced(e) ==
    { update_history([w EXCEPT !.current_time = @ + 1]) : w \in dynamics(e) }

\* the states a step with a rejected action leaves: the objects have moved
\* and attached (lines 741-746) when the agent's move_with_action raises
step_invalid_action(e) == dynamics(e)

InitArchive ==
    /\ env \in create_objects(NewRoomEnv2(ArchiveConfig))
    /\ ret = NoCall
    /\ twin = None
    /\ rng = <<>>
    /\ memo = <<>>
    /\ log = <<>>
    /\ archive = NoArchive

ResetArchived ==
    /\ Len(archive.hidden_global_states_all) < MaxArchive
    /\ ResetCall
    /\ archive' = archived(archive, env')
    /\ UNCHANGED <<twin, rng, memo, log>>

StepArchived ==
    /\ Len(archive.hidden_global_states_all) < MaxArchive
    /\ StepCall
    /\ archive' = archived(archive, env')
    /\ UNCHANGED <<twin, rng, memo, log>>

\* step with a movement action that is none of the five
StepInvalidAction ==
    /\ ~Stopped
    /\ env.started
    /\ env.current_time < MaxTime
    /\ \E action_qa \in Answers, action_explore \in InvalidActions :
          IF env.answer = <<>>
          THEN /\ env' = env
               /\ ret' = raises("TypeError", action_qa, action_explore)
          ELSE \E w \in step_invalid_action(env) :
                  /\ env' = w
                  /\ ret' = raises("AssertionError", action_qa, action_explore)
    /\ UNCHANGED <<twin, rng, memo, log, archive>>

NextArchive == ResetArchived \/ StepArchived \/ StepNoAnswer \/ StepInvalidAction

SpecArchive == InitArchive /\ [][NextArchive]_vars

(***************************************************************************)
(* Properties.                                                             *)
(***************************************************************************)
\* self.objects["agent"][0]
TheAgent == AgentObjects[1]

\* the observed call is a step
ObservedStep == ret.op = "step" /\ ret.observed

\* the observed call is a step that returned
ReturnedStep == ObservedStep /\ ret.raised = None

Directions == {"north", "east", "south", "west"}

\* C1: a step returns done = true exactly when the timestep before its
\* increment equals terminates_at, and done = false on every other step.
C1_DoneExactlyAtTerminatesAt ==
    ReturnedStep => (ret.done <=> (env.current_time - 1 = env.terminates_at))

\* an episode of two steps whose second step returned done = true
C1_Witness ==
    /\ ReturnedStep
    /\ ret.done
    /\ env.terminates_at = 1
    /\ env.current_time = 2

\* C2: the reward of a step is decided by the answer set the simulator held
\* when step was called (the one produced with the previous observation):
\* CORRECT for its current location, else PARTIAL for its previous location,
\* else WRONG.
C2_RewardAgainstPreviousAnswer ==
    [][ (ReturnedStep' /\ env.answer # <<>>) =>
            ret'.reward =
                IF ret'.action_qa = env.answer[1].current THEN CORRECT
                ELSE IF ret'.action_qa = env.answer[1].previous THEN PARTIAL
                ELSE WRONG ]_vars

\* a step rewarded as PARTIAL for a room that is neither location of the
\* answer set produced with the new observation
C2_Witness ==
    /\ ReturnedStep
    /\ ret.reward = PARTIAL
    /\ ret.action_qa \in Rooms
    /\ env.answer # <<>>
    /\ ret.action_qa # env.answer[1].current
    /\ ret.action_qa # env.answer[1].previous

\* C3: every step made after reset with a valid action returns, with one of
\* the three rewards, also after an observation without a question.
C3_StepAlwaysReturnsReward ==
    ObservedStep =>
        /\ ret.raised = None
        /\ ret.reward \in {CORRECT, PARTIAL, WRONG}

\* C4: a step that returns leaves the agent in its room if the action is stay
\* or the neighbor in the action's direction is the wall, and in that
\* neighbor otherwise; no valid action fails the assertion of the move.
C4_AgentMove ==
    [][ ObservedStep' =>
            /\ ret'.raised # "AssertionError"
            /\ ret'.raised = None =>
                  LET a == ret'.action_explore
                      room == env.location[TheAgent]
                  IN  env'.location[TheAgent] =
                          IF a = "stay" \/ room_config[room][a] = Wall THEN room
                          ELSE room_config[room][a] ]_vars

\* the agent in room b, having gone west against the wall
C4_Witness ==
    /\ ReturnedStep
    /\ ret.action_explore = "west"
    /\ env.history[TheAgent] = <<"a", "b", "b">>
    /\ env.location[TheAgent] = "b"

\* the number of places of the list s that hold x
Count(s, x) == Cardinality({i \in 1..Len(s) : s[i] = x})

\* C5: the attachment relation is mutually consistent: an attached dependent
\* object points to one independent object whose list holds it exactly once,
\* and every object in an independent object's list points back to it.
C5_AttachmentConsistent ==
    /\ \A d \in Dependents :
          env.attached_to[d] # None =>
              /\ env.attached_to[d] \in Independents
              /\ Count(env.attached[env.attached_to[d]], d) = 1
    /\ \A io \in Independents :
          \A i \in 1..Len(env.attached[io]) :
              /\ env.attached[io][i] \in Dependents
              /\ env.attached_to[env.attached[io][i]] = io

\* after a step the laptop, which rode with alice, is attached to bob
C5_Witness ==
    /\ ret.op = "step"
    /\ env.history["laptop"] = <<"a", "b">>
    /\ env.attached_to["laptop"] = "bob"
    /\ env.attached["bob"] = <<"laptop">>

\* the quadruples of the agent's room at the current time
RoomFacts(e) ==
    LET room == e.location[TheAgent]
    IN  {<<o, "atlocation", e.location[o], e.current_time>> :
            o \in {x \in Entities : e.location[x] = room}}
        \cup {<<room, d, room_config[room][d], e.current_time>> : d \in Directions}

\* C6: the room observation holds exactly the atlocation quadruples of the
\* objects in the agent's room and the four adjacency quadruples of that
\* room, each once.
C6_ObservationIsAgentRoom ==
    env.started =>
        /\ SeqSet(env.observations_room) = RoomFacts(env)
        /\ Len(env.observations_room) = Cardinality(RoomFacts(env))

\* the agent has moved to room b, where it sees alice and not the laptop
C6_Witness ==
    /\ ReturnedStep
    /\ env.history[TheAgent] = <<"a", "b">>
    /\ env.location["alice"] = "b"
    /\ env.location["laptop"] = "a"
    /\ <<"alice", "atlocation", "b", 1>> \in SeqSet(env.observations_room)

\* C7: a posed question's answer set has current = the subject's location and
\* previous = the latest history entry that differs from it, or None when no
\* entry differs; previous is never current.
C7_AnswerSet ==
    (env.started /\ env.answer # <<>>) =>
        LET name == env.question[1]
            answer == env.answer[1]
            h == env.history[name]
        IN  /\ answer.current = env.location[name]
            /\ answer.previous # answer.current
            /\ (answer.previous = None) <=> (\A i \in 1..Len(h) : h[i] = answer.current)
            /\ answer.previous # None =>
                  \E i \in 1..Len(h) :
                      /\ h[i] = answer.previous
                      /\ \A j \in (i + 1)..Len(h) : h[j] = answer.current

\* a question about alice, who went from a through b to c
C7_Witness ==
    /\ env.started
    /\ env.question # <<>>
    /\ env.question[1] = "alice"
    /\ env.history["alice"] = <<"a", "b", "c">>
    /\ env.answer = <<[current |-> "c", previous |-> "b"]>>

\* the calls both simulators got up to place i are the same: one reset and
\* then steps with the same answers and actions
SameInputs(i) ==
    \A j \in 2..i :
        /\ log["env"][j].call.op = (IF j = 2 THEN "reset" ELSE "step")
        /\ log["twin"][j].call.op = log["env"][j].call.op
        /\ log["twin"][j].call.action_qa = log["env"][j].call.action_qa
        /\ log["twin"][j].call.action_explore = log["env"][j].call.action_explore

\* C8: two simulators constructed with the same configuration and seed, each
\* reset once and then fed the same (answer, action) pairs, return the same
\* observations, rewards, done flags and infos call by call.
C8_SameSeedSameTrajectory ==
    \A i \in 2..Len(log["env"]) :
        (i <= Len(log["twin"]) /\ SameInputs(i)) =>
            Returned(log["env"][i]) = Returned(log["twin"][i])

\* C9: two resets of a simulator with no step between them return the same
\* observation and place every entity in the same room.
C9_ResetTwiceSame ==
    \A s \in Simulators :
        \A i \in 1..Len(log[s]) :
            (/\ i < Len(log[s])
             /\ log[s][i].call.op = "reset"
             /\ log[s][i + 1].call.op = "reset") =>
                /\ log[s][i + 1].observations = log[s][i].observations
                /\ log[s][i + 1].sim.location = log[s][i].sim.location

\* C10: every history has current_time + 1 entries and ends with the object's
\* location, and a step keeps the entries it found, appending one.
C10_History ==
    /\ [](env.started =>
            \A o \in Entities :
                /\ Len(env.history[o]) = env.current_time + 1
                /\ env.history[o][Len(env.history[o])] = env.location[o])
    /\ [][ (ret'.op = "step" /\ ret'.raised = None) =>
              \A o \in Entities :
                  env'.history[o] = Append(env.history[o], env'.location[o]) ]_vars

\* a second step has appended a third entry to the history of alice
C10_Witness ==
    /\ ReturnedStep
    /\ env.current_time = 2
    /\ env.history["alice"] = <<"b", "a", "b">>

\* the entities in the order agent, static, independent, dependent
EntityOrder == AgentObjects \o StaticObjects \o IndependentObjects \o DependentObjects

\* C11: the hidden global state is one atlocation quadruple per entity, in the
\* order agent, static, independent, dependent, then the four adjacency
\* quadruples (north, east, south, west) of every room in declaration order
\* as the room table gives them, every quadruple with the current timestep.
C11_HiddenStateLayout ==
    env.started =>
        LET h == env.hidden_global_state
            n == Len(EntityOrder)
        IN  /\ Len(h) = n + 4 * Len(RoomNames)
            /\ \A i \in 1..n :
                  h[i] = <<EntityOrder[i], "atlocation",
                           env.location[EntityOrder[i]], env.current_time>>
            /\ \A r \in 1..Len(RoomNames) :
                  \A d \in 1..4 :
                      h[n + 4 * (r - 1) + d] =
                          <<RoomNames[r], Actions[d],
                            room_config[RoomNames[r]][Actions[d]], env.current_time>>

\* after two steps the hidden state holds alice in room c at time 2 in the
\* third place, and the east wall of room c at time 2 as the last but two
C11_Witness ==
    /\ ReturnedStep
    /\ env.current_time = 2
    /\ env.hidden_global_state[3] = <<"alice", "atlocation", "c", 2>>
    /\ env.hidden_global_state[15] = <<"c", "east", Wall, 2>>

\* C12: the archive of hidden states is the history of the episode: after a
\* reset followed by k steps it holds k + 1 snapshots, the i-th (from 0) with
\* timestamp i, also when an earlier episode ran on the simulator.
C12_ArchivePerEpisode ==
    env.started =>
        LET all == archive.hidden_global_states_all
        IN  /\ Len(all) = env.current_time + 1
            /\ \A i \in 1..Len(all) : all[i][1][4] = i - 1

\* C13: a step with a movement action that is none of the five raises
\* instead of returning, and advances neither the timestep nor a history nor
\* an archive.
C13_InvalidActionRaises ==
    [][ (ObservedStep' /\ ret'.action_explore \notin ValidActions) =>
            /\ ret'.raised # None
            /\ env'.current_time = env.current_time
            /\ env'.history = env.history
            /\ archive' = archive ]_vars

\* the assertion has failed after alice went from a to b with the laptop
C13_Witness ==
    /\ ObservedStep
    /\ ret.raised = "AssertionError"
    /\ ret.action_explore = "jump"
    /\ env.history["alice"] = <<"a">>
    /\ env.location["alice"] = "b"
    /\ env.location["laptop"] = "b"
    /\ Len(archive.hidden_global_states_all) = 1

\* C14: the info of a step holds the answer set its reward was scored against
\* and the timestep before the increment; the quadruples and the question of
\* the observation of that step carry the timestep after it; every step that
\* returns adds one to the timestep, which reset sets to 0.
C14_InfoBeforeObservationAfter ==
    /\ [][ ReturnedStep' =>
              /\ ret'.info.answers = env.answer
              /\ ret'.info.timestamp = env.current_time
              /\ ret'.reward =
                    IF ret'.action_qa = ret'.info.answers[1].current THEN CORRECT
                    ELSE IF ret'.action_qa = ret'.info.answers[1].previous THEN PARTIAL
                    ELSE WRONG
              /\ \A i \in 1..Len(env'.observations_room) :
                    env'.observations_room[i][4] = ret'.info.timestamp + 1
              /\ env'.question # <<>> => env'.question[4] = ret'.info.timestamp + 1 ]_vars
    /\ [][ /\ (ret'.op = "step" /\ ret'.raised = None) =>
                  env'.current_time = env.current_time + 1
           /\ ret'.op = "reset" => env'.current_time = 0 ]_vars

\* the second step returned the answer set about alice at time 1, and a new
\* question about the bed at time 2
C14_Witness ==
    /\ ReturnedStep
    /\ ret.info.timestamp = 1
    /\ Len(ret.info.answers) = 1
    /\ ret.info.answers[1].current = "c"
    /\ env.current_time = 2
    /\ env.question = <<"bed", "atlocation", "?", 2>>
    /\ env.answer # ret.info.answers

\* C15: with make_everything_static set, a step changes the location of no
\* static, independent or dependent object and no attachment; the agent
\* moves and the timestep advances.
C15_FrozenStep ==
    [][ (env.make_everything_static /\ ret'.op = "step" /\ ret'.raised = None) =>
            /\ \A o \in Entities \ Agents : env'.location[o] = env.location[o]
            /\ env'.attached = env.attached
            /\ env'.attached_to = env.attached_to
            /\ env'.current_time = env.current_time + 1 ]_vars

\* a frozen step has taken the agent to room b; alice stays in a (where her
\* transition table would have her move or stay) with the laptop attached
C15_Witness ==
    /\ env.make_everything_static
    /\ ReturnedStep
    /\ env.history[TheAgent] = <<"a", "a", "b">>
    /\ env.history["alice"] = <<"a", "a", "a">>
    /\ env.history["bob"] = <<"b", "b", "b">>
    /\ env.attached_to["laptop"] = "alice"

\* C16: after reset the timestep is 0, the info is empty, the history of every
\* entity is its initial location alone, and that location is a key of the
\* entity's init_probs with a probability above 0.
C16_AfterReset ==
    ret.op = "reset" =>
        /\ env.current_time = 0
        /\ ret.info = <<>>
        /\ \A o \in Entities :
              /\ env.history[o] = <<env.location[o]>>
              /\ env.location[o] \in DOMAIN object_init_config[o]
              /\ object_init_config[o][env.location[o]] > 0

\* a reset has put alice in b and the laptop in a
C16_Witness ==
    /\ ret.op = "reset"
    /\ env.started
    /\ env.location["alice"] = "b"
    /\ env.location["laptop"] = "a"
    /\ env.location["bed"] = "b"

\* the number of answers a caller supplies: none, or one room
AnswerCount(action_qa) == IF action_qa = None THEN 0 ELSE 1

\* C17: a step fails when the number of answers supplied differs from the
\* number of questions the last observation posed.
C17_AnswerCountChecked ==
    [][ (ObservedStep' /\ ret'.action_explore \in ValidActions
         /\ AnswerCount(ret'.action_qa) # (IF env.question = <<>> THEN 0 ELSE 1)) =>
            ret'.raised # None ]_vars

\* C18: a step after an observation with no question returns the reward 0,
\* and a step answering the posed questions wrongly returns WRONG times the
\* number of questions posed.
C18_RewardPerQuestion ==
    [][ (ObservedStep' /\ ret'.action_explore \in ValidActions) =>
            /\ env.question = <<>> =>
                  (ret'.raised = None /\ ret'.reward = 0)
            /\ (/\ env.question # <<>>
                /\ ret'.action_qa # env.answer[1].current
                /\ ret'.action_qa # env.answer[1].previous) =>
                  (ret'.raised = None /\ ret'.reward = WRONG * 1) ]_vars

\* C19: the first quadruple of the room observation of every reset and step
\* is the agent's own atlocation quadruple, with randomize_observations
\* false and true.
C19_AgentQuadrupleFirst ==
    (env.started /\ ret.raised = None) =>
        env.observations_room[1] =
            <<TheAgent, "atlocation", env.location[TheAgent], env.current_time>>

\* C20: in a step that is not frozen, every attachment is cleared when the
\* independent objects have moved, a dependent object attached to I when the
\* step began ends the step in the room I has moved to, and an attachment
\* after the step joins objects of one room.
C20_RideThenAttach ==
    /\ []((env.started /\ ret.raised = None /\ ~env.make_everything_static) =>
            \A w \in MoveAll({env}, IndependentObjects) :
                /\ \A io \in Independents : w.attached[io] = <<>>
                /\ \A d \in Dependents :
                      /\ w.attached_to[d] = None
                      /\ env.attached_to[d] # None =>
                            w.location[d] = w.location[env.attached_to[d]])
    /\ [][ (~env.make_everything_static /\ ret'.op = "step" /\ ret'.raised = None) =>
              \A d \in Dependents :
                  /\ env.attached_to[d] # None =>
                        env'.location[d] = env'.location[env.attached_to[d]]
                  /\ env'.attached_to[d] # None =>
                        env'.location[env'.attached_to[d]] = env'.location[d] ]_vars

\* the laptop rode with alice from a to b, where it is now attached to bob
C20_Witness ==
    /\ ReturnedStep
    /\ ~env.make_everything_static
    /\ env.history["alice"] = <<"a", "b">>
    /\ env.history["laptop"] = <<"a", "b">>
    /\ env.history["bob"] = <<"b", "b">>
    /\ env.attached_to["laptop"] = "bob"

\* C21: across a step every static object keeps its location, and so does
\* every dependent object that was attached to nothing when the step began.
C21_StaticAndUnattachedStay ==
    [][ ret'.op = "step" =>
            /\ \A o \in Statics : env'.location[o] = env.location[o]
            /\ \A d \in Dependents :
                  env.attached_to[d] = None => env'.location[d] = env.location[d] ]_vars

\* alice has left room a for b, and the laptop, attached to nothing, has
\* stayed in a
C21_Witness ==
    /\ ReturnedStep
    /\ ~env.make_everything_static
    /\ env.history["alice"] = <<"a", "b">>
    /\ env.history["laptop"] = <<"a", "a">>
    /\ env.history["bed"] = <<"b", "b">>

\* C22: after every reset and step the question is None exactly when the
\* answer set is None; a posed question is [subject, atlocation, ?, timestep]
\* for a subject of a question weight above 0, so never the agent; and with
\* question_prob 1 a question is always posed.
C22_QuestionAndAnswer ==
    (env.started /\ ret.raised = None) =>
        /\ (env.question = <<>>) <=> (env.answer = <<>>)
        /\ env.question # <<>> =>
              /\ Len(env.question) = 4
              /\ env.question[1] \in Entities \ Agents
              /\ object_question_probs[env.question[1]] > 0
              /\ env.question[2] = "atlocation"
              /\ env.question[3] = "?"
              /\ env.question[4] = env.current_time
        /\ env.question_prob = 10 => env.question # <<>>

\* a step with question_prob 0.5 has posed no question, after a reset that
\* posed one
C22_Witness ==
    /\ ReturnedStep
    /\ env.question_prob = 5
    /\ env.question = <<>>
    /\ env.answer = <<>>
    /\ env.current_time = 1

\* C23: when the answer set a step is scored against has previous = None,
\* every answer other than the current location, the absent answer included,
\* is rewarded WRONG.
C23_NoPreviousNoPartial ==
    [][ (ReturnedStep' /\ env.answer # <<>>) =>
            ((env.answer[1].previous = None /\ ret'.action_qa # env.answer[1].current) =>
                ret'.reward = WRONG) ]_vars

C25_FailedStepAtomic ==
    [][ (ObservedStep' /\ ret'.raised # None /\ ret'.action_explore \notin ValidActions) =>
            /\ env'.location = env.location
            /\ env'.attached = env.attached
            /\ env'.attached_to = env.attached_to ]_vars

\* C26: a step made after the step that returned done = true is accepted:
\* it returns, with done = false, and the timestep has advanced by one.
C26_StepAfterDone ==
    [][ (ObservedStep' /\ env.current_time > env.terminates_at) =>
            /\ ret'.raised = None
            /\ ~ret'.done
            /\ env'.current_time = env.current_time + 1 ]_vars

\* C27: every entity is in a declared room, never in the wall, and every
\* atlocation quadruple of the hidden state ends in a declared room.
C27_LocationsAreRooms ==
    /\ \A o \in Entities : env.location[o] \in Rooms /\ env.location[o] # Wall
    /\ \A i \in 1..Len(env.hidden_global_state) :
          env.hidden_global_state[i][2] = "atlocation" =>
              env.hidden_global_state[i][3] \in Rooms

\* the agent walked west against the wall of room b and is still in b
C27_Witness ==
    /\ ReturnedStep
    /\ ret.action_explore = "west"
    /\ env.history[TheAgent] = <<"a", "b", "b">>
    /\ room_config["b"]["west"] = Wall
    /\ \E i \in 1..Len(env.hidden_global_state) :
          env.hidden_global_state[i] = <<TheAgent, "atlocation", "b", 2>>
====
